---- MODULE Spec2Model ----
\* Model of llm_answer_watcher/user_config_router.py: the six request handlers
\* for the per-user brand and intent collections, run by several workers over
\* one SQLite store.
\*
\* The handlers are in the router file and are modelled statement by statement.
\* The functions they import from llm_answer_watcher.storage.db
\* (init_db_if_needed, create_user_X, get_user_Xs, delete_user_X) are not in the
\* router file; they are modelled from the written specification: each
\* repository call is one atomic, durable operation on the store, uniqueness of
\* (user_id, name) is a storage constraint, ids are fresh, listing is in
\* creation order, delete is delete-by-predicate on (id, user_id).
EXTENDS Integers, Sequences, FiniteSets

\* ------------------------------------------------------------------------
\* Bounds of the model
\* ------------------------------------------------------------------------
NumProcs == 2      \* concurrent workers, each serving one request at a time
MaxReqs  == 3      \* requests issued over a run

Procs   == 1..NumProcs
Users   == {"A", "B"}
Names   == {"acme", "zeta", ""}
Aliases == {"welcome", ""}
Prompts == {"hello", "different", ""}

VARIABLES
    schema,        \* TRUE once the tables and their constraints exist
    brands,        \* rows of the brand table
    intents,       \* rows of the intent table
    nextBrandId,   \* next id the store assigns to a brand
    nextIntentId,  \* next id the store assigns to an intent
    req,           \* per worker: the request in progress and its local variables
    last,          \* the request answered last, with its response
    issued,        \* number of requests received so far
    histB,         \* history: every brand row ever inserted, in insertion order
    histI,         \* history: every intent row ever inserted, in insertion order
    removals       \* history: per table and id, how often a delete removed it

vars == <<schema, brands, intents, nextBrandId, nextIntentId, req, last, issued, histB,
          histI, removals>>

\* ------------------------------------------------------------------------
\* HTTP responses
\* ------------------------------------------------------------------------
HTTP_200_OK          == 200
HTTP_201_CREATED     == 201
HTTP_400_BAD_REQUEST == 400
HTTP_404_NOT_FOUND   == 404
HTTP_500_INTERNAL    == 500

Response(st, det, bd) == [status |-> st, detail |-> det, body |-> bd]
NoResponse == Response(0, <<>>, <<>>)

\* response_model=BrandResponse: id, brand_name, is_mine (bool), created_at
BrandResponse(row) ==
    [id |-> row.id, brand_name |-> row.brand_name,
     is_mine |-> (row.is_mine # 0), created_at |-> row.created_at]

\* response_model=IntentResponse: id, intent_alias, prompt, created_at
IntentResponse(row) ==
    [id |-> row.id, intent_alias |-> row.intent_alias,
     prompt |-> row.prompt, created_at |-> row.created_at]

\* class BrandCreate: brand_name: str, is_mine: bool; every string passes
BrandCreate(brand_name, is_mine) ==
    brand_name \in Names /\ is_mine \in BOOLEAN

\* class IntentCreate: intent_alias: str, prompt: str; every string passes
IntentCreate(intent_alias, prompt) ==
    intent_alias \in Aliases /\ prompt \in Prompts

\* an exception no except clause of the handler names: the with block rolls
\* back and the framework answers 500
UnhandledError ==
    Response(HTTP_500_INTERNAL, <<"Internal Server Error">>, <<>>)

\* ------------------------------------------------------------------------
\* Repository (llm_answer_watcher.storage.db)
\* ------------------------------------------------------------------------
RECURSIVE ById(_)
\* the rows of S as a sequence in ascending id order
ById(S) ==
    IF S = {} THEN <<>>
    ELSE LET m == CHOOSE r \in S : \A q \in S : r.id <= q.id
         IN  <<m>> \o ById(S \ {m})

\* SQLite stores a bool as an integer
BoolToInt(b) == IF b THEN 1 ELSE 0

\* get_user_brands(conn, user_id): the user's rows in creation order
get_user_brands(tbl, user_id) == ById({r \in tbl : r.user_id = user_id})

\* get_user_intents(conn, user_id)
get_user_intents(tbl, user_id) == ById({r \in tbl : r.user_id = user_id})

\* UNIQUE(user_id, brand_name): rows that make an insert raise IntegrityError
BrandConflicts(tbl, user_id, brand_name) ==
    {r \in tbl : r.user_id = user_id /\ r.brand_name = brand_name}

\* UNIQUE(user_id, intent_alias)
IntentConflicts(tbl, user_id, intent_alias) ==
    {r \in tbl : r.user_id = user_id /\ r.intent_alias = intent_alias}

\* the row create_user_brand inserts
NewBrandRow(id, user_id, brand_name, is_mine, ts) ==
    [id |-> id, user_id |-> user_id, brand_name |-> brand_name,
     is_mine |-> BoolToInt(is_mine), created_at |-> ts]

\* the row create_user_intent inserts
NewIntentRow(id, user_id, intent_alias, prompt, ts) ==
    [id |-> id, user_id |-> user_id, intent_alias |-> intent_alias,
     prompt |-> prompt, created_at |-> ts]

\* create_user_brand: InvalidInput when brand_name is empty
InvalidBrand(brand_name) == brand_name = ""

\* create_user_intent: InvalidInput when intent_alias or prompt is empty
InvalidIntent(intent_alias, prompt) == intent_alias = "" \/ prompt = ""

\* delete_user_brand(conn, brand_id, user_id): the rows DELETE removes
delete_user_brand(tbl, brand_id, user_id) ==
    {r \in tbl : r.id = brand_id /\ r.user_id = user_id}

\* delete_user_intent(conn, intent_id, user_id)
delete_user_intent(tbl, intent_id, user_id) ==
    {r \in tbl : r.id = intent_id /\ r.user_id = user_id}

\* ------------------------------------------------------------------------
\* Requests
\* ------------------------------------------------------------------------
\* pc: "idle" (no request), "exec" (the initializer has run, the repository
\* call is next), "fetch" (add_X: the insert has run, the re-read is next).
\* History fields of a request: pre, the rows its repository call met (add_X:
\* the rows of any user under the same name; remove_X: the rows with the target
\* id; list_X: the whole table); ins, the rows it inserted; rem, the rows it
\* removed.
Idle ==
    [op |-> "idle", pc |-> "idle", user |-> "A",
     brand_name |-> "", is_mine |-> FALSE, intent_alias |-> "", prompt |-> "",
     target_id |-> 0, new_id |-> 0, pre |-> {}, ins |-> {}, rem |-> {}]

\* an answered request: its arguments and history fields, and its response
Answered(r, resp) ==
    [op |-> r.op, user |-> r.user, brand_name |-> r.brand_name, is_mine |-> r.is_mine,
     intent_alias |-> r.intent_alias, prompt |-> r.prompt, target_id |-> r.target_id,
     new_id |-> r.new_id, pre |-> r.pre, ins |-> r.ins, rem |-> r.rem, resp |-> resp]

Init ==
    /\ schema = FALSE
    /\ brands = {}
    /\ intents = {}
    /\ nextBrandId = 1
    /\ nextIntentId = 1
    /\ req = [p \in Procs |-> Idle]
    /\ last = Answered(Idle, NoResponse)
    /\ issued = 0
    /\ histB = <<>>
    /\ histI = <<>>
    /\ removals = [t \in {"brand", "intent"} |-> [i \in 1..MaxReqs |-> 0]]

\* CURRENT_TIMESTAMP: the store's clock, one tick per insert
Now == nextBrandId + nextIntentId - 1

\* an initializer that drops and recreates the tables on every call
init_db_if_needed_recreate(p) ==
    /\ req[p].pc = "idle"
    /\ issued < MaxReqs
    /\ issued' = issued + 1
    /\ schema' = TRUE
    /\ brands' = {}
    /\ intents' = {}
    /\ req' = [req EXCEPT ![p].pc = "exec"]
    /\ UNCHANGED <<nextBrandId, nextIntentId, last, histB, histI, removals>>

\* init_db_if_needed(db_path): the first statement of every handler, run when a
\* request reaches worker p; CREATE TABLE IF NOT EXISTS keeps the rows
init_db_if_needed(p) ==
    /\ req[p].pc = "idle"
    /\ issued < MaxReqs
    /\ issued' = issued + 1
    /\ schema' = TRUE
    /\ req' = [req EXCEPT ![p].pc = "exec"]
    /\ UNCHANGED <<brands, intents, nextBrandId, nextIntentId, last, histB, histI, removals>>

\* a list_brands that answers in descending id order
list_brands_result_reversed(rows) ==
    Response(HTTP_200_OK, <<>>,
             [i \in 1..Len(rows) |-> BrandResponse(rows[Len(rows) + 1 - i])])

\* list_brands: return brands
list_brands_result(rows) ==
    Response(HTTP_200_OK, <<>>, [i \in 1..Len(rows) |-> BrandResponse(rows[i])])

\* a list_brands that forgets to scope the query to the current user
list_brands_query_unscoped(tbl, current_user) == ById(tbl)

\* list_brands: brands = get_user_brands(conn, current_user["id"])
list_brands_query(tbl, current_user) == get_user_brands(tbl, current_user)

\* a list_brands that queries the store before it calls the initializer
list_brands_before_init(p) ==
    /\ req[p].pc = "idle"
    /\ \E u \in Users :
         LET r == [req[p] EXCEPT !.op = "list_brands", !.user = u, !.pre = brands]
         IN  last' = Answered(r, list_brands_result(list_brands_query(brands, u)))
    /\ UNCHANGED <<schema, brands, intents, nextBrandId, nextIntentId, req, issued,
                   histB, histI, removals>>

\* GET /user/brands for user u
list_brands(p) ==
    /\ req[p].pc = "exec"
    /\ \E u \in Users :
         LET r == [req[p] EXCEPT !.op = "list_brands", !.user = u, !.pre = brands]
         IN  last' = Answered(r, list_brands_result(list_brands_query(brands, u)))
    /\ req' = [req EXCEPT ![p] = Idle]
    /\ UNCHANGED <<schema, brands, intents, nextBrandId, nextIntentId, issued, histB, histI, removals>>

\* an add_brand without the except clause: the IntegrityError reaches the
\* framework, which answers 500
add_brand_duplicate_unhandled(brand_name) ==
    Response(HTTP_500_INTERNAL, <<"Internal Server Error">>, <<>>)

\* an add_brand that swallows the IntegrityError and answers 201
add_brand_duplicate_swallowed(brand_name) ==
    Response(HTTP_201_CREATED, <<>>, <<>>)

\* add_brand, except sqlite3.IntegrityError: HTTP 400
add_brand_duplicate(brand_name) ==
    Response(HTTP_400_BAD_REQUEST, <<"Brand '", brand_name, "' already exists">>, <<>>)

\* an add_brand that does not key the create by the current user
add_brand_conflicts_global(tbl, current_user, brand_name, is_mine) ==
    {r \in tbl : r.brand_name = brand_name}

\* an add_brand whose insert never raises IntegrityError
add_brand_conflicts_none(tbl, current_user, brand_name, is_mine) == {}

\* add_brand: the rows that make create_user_brand(conn, current_user["id"],
\* brand.brand_name, brand.is_mine) raise IntegrityError
add_brand_conflicts(tbl, current_user, brand_name, is_mine) ==
    BrandConflicts(tbl, current_user, brand_name)

\* an add_brand that overwrites is_mine of the stored brand on a duplicate
add_brand_create_upsert(p) ==
    /\ req[p].pc = "exec"
    /\ \E u \in Users, n \in Names \ {""}, m \in BOOLEAN :
         LET conflicts == add_brand_conflicts(brands, u, n, m)
             r == [req[p] EXCEPT !.op = "add_brand", !.user = u, !.brand_name = n,
                                 !.is_mine = m,
                                 !.pre = {x \in brands : x.brand_name = n}]
         IN  IF conflicts # {}
             THEN /\ brands' = (brands \ conflicts) \cup
                               {[c EXCEPT !.is_mine = BoolToInt(m)] : c \in conflicts}
                  /\ last' = Answered(r, add_brand_duplicate(n))
                  /\ req' = [req EXCEPT ![p] = Idle]
                  /\ UNCHANGED <<nextBrandId, histB>>
             ELSE LET row == NewBrandRow(nextBrandId, u, n, m, Now)
                  IN  /\ brands' = brands \cup {row}
                      /\ nextBrandId' = nextBrandId + 1
                      /\ histB' = Append(histB, row)
                      /\ req' = [req EXCEPT ![p] = [r EXCEPT !.pc = "fetch",
                                      !.new_id = row.id, !.ins = {row}]]
                      /\ UNCHANGED last
    /\ UNCHANGED <<schema, intents, nextIntentId, issued, histI, removals>>

\* POST /user/brands for user u, first statement of the try block:
\* brand_id = create_user_brand(...)
add_brand_create(p) ==
    /\ req[p].pc = "exec"
    /\ \E u \in Users, n \in Names, m \in BOOLEAN :
         LET conflicts == add_brand_conflicts(brands, u, n, m)
             r == [req[p] EXCEPT !.op = "add_brand", !.user = u, !.brand_name = n,
                                 !.is_mine = m,
                                 !.pre = {x \in brands : x.brand_name = n}]
         IN  /\ BrandCreate(n, m)
             /\ IF InvalidBrand(n)
                THEN /\ last' = Answered(r, UnhandledError)
                     /\ req' = [req EXCEPT ![p] = Idle]
                     /\ UNCHANGED <<brands, nextBrandId, histB>>
                ELSE IF conflicts # {}
                THEN /\ last' = Answered(r, add_brand_duplicate(n))
                     /\ req' = [req EXCEPT ![p] = Idle]
                     /\ UNCHANGED <<brands, nextBrandId, histB>>
                ELSE LET row == NewBrandRow(nextBrandId, u, n, m, Now)
                     IN  /\ brands' = brands \cup {row}
                         /\ nextBrandId' = nextBrandId + 1
                         /\ histB' = Append(histB, row)
                         /\ req' = [req EXCEPT ![p] = [r EXCEPT !.pc = "fetch",
                                         !.new_id = row.id, !.ins = {row}]]
                         /\ UNCHANGED last
    /\ UNCHANGED <<schema, intents, nextIntentId, issued, histI, removals>>

\* an add_brand that takes the first of the user's brands for the created one
created_brand_first(rows, brand_id) ==
    IF rows = <<>> THEN <<>> ELSE <<Head(rows)>>

\* created_brand = next((b for b in brands if b["id"] == brand_id), None)
created_brand(rows, brand_id) ==
    SelectSeq(rows, LAMBDA b : b.id = brand_id)

\* add_brand, after the re-read: 500 when not found, else the record
add_brand_result(found) ==
    IF found = <<>>
    THEN Response(HTTP_500_INTERNAL, <<"Failed to retrieve created brand">>, <<>>)
    ELSE Response(HTTP_201_CREATED, <<>>, <<BrandResponse(Head(found))>>)

\* add_brand, rest of the try block: re-read the user's brands, pick the new one
add_brand_fetch(p) ==
    /\ req[p].pc = "fetch" /\ req[p].op = "add_brand"
    /\ LET rows == get_user_brands(brands, req[p].user)
       IN  last' = Answered(req[p], add_brand_result(created_brand(rows, req[p].new_id)))
    /\ req' = [req EXCEPT ![p] = Idle]
    /\ UNCHANGED <<schema, brands, intents, nextBrandId, nextIntentId, issued, histB, histI, removals>>

\* a remove_brand that never looks at the result of the delete
remove_brand_result_unchecked(deleted) ==
    Response(HTTP_200_OK, <<"Brand deleted">>, <<>>)

\* remove_brand: if not deleted: 404 "Brand not found", else the message
remove_brand_result(deleted) ==
    IF ~deleted
    THEN Response(HTTP_404_NOT_FOUND, <<"Brand not found">>, <<>>)
    ELSE Response(HTTP_200_OK, <<"Brand deleted">>, <<>>)

\* a remove_brand that deletes by id alone
remove_brand_delete_any_owner(tbl, brand_id, current_user) ==
    {r \in tbl : r.id = brand_id}

\* remove_brand: deleted = delete_user_brand(conn, brand_id, current_user["id"])
remove_brand_delete(tbl, brand_id, current_user) ==
    delete_user_brand(tbl, brand_id, current_user)

\* DELETE /user/brands/{brand_id} for user u
remove_brand(p) ==
    /\ req[p].pc = "exec"
    /\ \E u \in Users, i \in 1..nextBrandId :
         LET gone == remove_brand_delete(brands, i, u)
             r == [req[p] EXCEPT !.op = "remove_brand", !.user = u, !.target_id = i,
                                 !.pre = {x \in brands : x.id = i}, !.rem = gone]
         IN  /\ brands' = brands \ gone
             /\ removals' = [removals EXCEPT !["brand"] =
                    [j \in DOMAIN @ |-> @[j] + Cardinality({x \in gone : x.id = j})]]
             /\ last' = Answered(r, remove_brand_result(gone # {}))
    /\ req' = [req EXCEPT ![p] = Idle]
    /\ UNCHANGED <<schema, intents, nextBrandId, nextIntentId, issued, histB, histI>>

\* list_intents: return intents
list_intents_result(rows) ==
    Response(HTTP_200_OK, <<>>, [i \in 1..Len(rows) |-> IntentResponse(rows[i])])

\* list_intents: intents = get_user_intents(conn, current_user["id"])
list_intents_query(tbl, current_user) == get_user_intents(tbl, current_user)

\* GET /user/intents for user u
list_intents(p) ==
    /\ req[p].pc = "exec"
    /\ \E u \in Users :
         LET r == [req[p] EXCEPT !.op = "list_intents", !.user = u, !.pre = intents]
         IN  last' = Answered(r, list_intents_result(list_intents_query(intents, u)))
    /\ req' = [req EXCEPT ![p] = Idle]
    /\ UNCHANGED <<schema, brands, intents, nextBrandId, nextIntentId, issued, histB, histI, removals>>

\* add_intent, except sqlite3.IntegrityError: HTTP 400
add_intent_duplicate(intent_alias) ==
    Response(HTTP_400_BAD_REQUEST, <<"Intent alias '", intent_alias, "' already exists">>, <<>>)

\* an add_intent whose uniqueness key includes the prompt
add_intent_conflicts_with_prompt(tbl, current_user, intent_alias, prompt) ==
    {r \in IntentConflicts(tbl, current_user, intent_alias) : r.prompt = prompt}

\* add_intent: the rows that make create_user_intent(conn, current_user["id"],
\* intent.intent_alias, intent.prompt) raise IntegrityError
add_intent_conflicts(tbl, current_user, intent_alias, prompt) ==
    IntentConflicts(tbl, current_user, intent_alias)

\* POST /user/intents for user u, first statement of the try block:
\* intent_id = create_user_intent(...)
add_intent_create(p) ==
    /\ req[p].pc = "exec"
    /\ \E u \in Users, a \in Aliases, t \in Prompts :
         LET conflicts == add_intent_conflicts(intents, u, a, t)
             r == [req[p] EXCEPT !.op = "add_intent", !.user = u, !.intent_alias = a,
                                 !.prompt = t,
                                 !.pre = {x \in intents : x.intent_alias = a}]
         IN  /\ IntentCreate(a, t)
             /\ IF InvalidIntent(a, t)
                THEN /\ last' = Answered(r, UnhandledError)
                     /\ req' = [req EXCEPT ![p] = Idle]
                     /\ UNCHANGED <<intents, nextIntentId, histI>>
                ELSE IF conflicts # {}
                THEN /\ last' = Answered(r, add_intent_duplicate(a))
                     /\ req' = [req EXCEPT ![p] = Idle]
                     /\ UNCHANGED <<intents, nextIntentId, histI>>
                ELSE LET row == NewIntentRow(nextIntentId, u, a, t, Now)
                     IN  /\ intents' = intents \cup {row}
                         /\ nextIntentId' = nextIntentId + 1
                         /\ histI' = Append(histI, row)
                         /\ req' = [req EXCEPT ![p] = [r EXCEPT !.pc = "fetch",
                                         !.new_id = row.id, !.ins = {row}]]
                         /\ UNCHANGED last
    /\ UNCHANGED <<schema, brands, nextBrandId, issued, histB, removals>>

\* created_intent = next((i for i in intents if i["id"] == intent_id), None)
created_intent(rows, intent_id) ==
    SelectSeq(rows, LAMBDA i : i.id = intent_id)

\* add_intent, after the re-read: 500 when not found, else the record
add_intent_result(found) ==
    IF found = <<>>
    THEN Response(HTTP_500_INTERNAL, <<"Failed to retrieve created intent">>, <<>>)
    ELSE Response(HTTP_201_CREATED, <<>>, <<IntentResponse(Head(found))>>)

\* add_intent, rest of the try block
add_intent_fetch(p) ==
    /\ req[p].pc = "fetch" /\ req[p].op = "add_intent"
    /\ LET rows == get_user_intents(intents, req[p].user)
       IN  last' = Answered(req[p], add_intent_result(created_intent(rows, req[p].new_id)))
    /\ req' = [req EXCEPT ![p] = Idle]
    /\ UNCHANGED <<schema, brands, intents, nextBrandId, nextIntentId, issued, histB, histI, removals>>

\* a remove_intent that never looks at the result of the delete
remove_intent_result_unchecked(deleted) ==
    Response(HTTP_200_OK, <<"Intent deleted">>, <<>>)

\* remove_intent: if not deleted: 404 "Intent not found", else the message
remove_intent_result(deleted) ==
    IF ~deleted
    THEN Response(HTTP_404_NOT_FOUND, <<"Intent not found">>, <<>>)
    ELSE Response(HTTP_200_OK, <<"Intent deleted">>, <<>>)

\* a remove_intent that deletes by id alone
remove_intent_delete_any_owner(tbl, intent_id, current_user) ==
    {r \in tbl : r.id = intent_id}

\* remove_intent: deleted = delete_user_intent(conn, intent_id, current_user["id"])
remove_intent_delete(tbl, intent_id, current_user) ==
    delete_user_intent(tbl, intent_id, current_user)

\* DELETE /user/intents/{intent_id} for user u
remove_intent(p) ==
    /\ req[p].pc = "exec"
    /\ \E u \in Users, i \in 1..nextIntentId :
         LET gone == remove_intent_delete(intents, i, u)
             r == [req[p] EXCEPT !.op = "remove_intent", !.user = u, !.target_id = i,
                                 !.pre = {x \in intents : x.id = i}, !.rem = gone]
         IN  /\ intents' = intents \ gone
             /\ removals' = [removals EXCEPT !["intent"] =
                    [j \in DOMAIN @ |-> @[j] + Cardinality({x \in gone : x.id = j})]]
             /\ last' = Answered(r, remove_intent_result(gone # {}))
    /\ req' = [req EXCEPT ![p] = Idle]
    /\ UNCHANGED <<schema, brands, nextBrandId, nextIntentId, issued, histB, histI>>

Step(p) ==
    \/ init_db_if_needed(p)
    \/ list_brands(p)
    \/ add_brand_create(p)
    \/ add_brand_fetch(p)
    \/ remove_brand(p)
    \/ list_intents(p)
    \/ add_intent_create(p)
    \/ add_intent_fetch(p)
    \/ remove_intent(p)

Next == \E p \in Procs : Step(p)

\* workers in separate processes: the steps of different requests interleave
Spec == Init /\ [][Next]_vars

\* no request of another worker is between its first and last statement
Alone(p) == \A q \in Procs \ {p} : req[q].pc = "idle"

NextSeq ==
    \E p \in Procs :
        \/ Alone(p) /\ init_db_if_needed(p)
        \/ Alone(p) /\ list_brands(p)
        \/ Alone(p) /\ add_brand_create(p)
        \/ Alone(p) /\ add_brand_fetch(p)
        \/ Alone(p) /\ remove_brand(p)
        \/ Alone(p) /\ list_intents(p)
        \/ Alone(p) /\ add_intent_create(p)
        \/ Alone(p) /\ add_intent_fetch(p)
        \/ Alone(p) /\ remove_intent(p)

\* one event loop: the handlers are async functions that never await, so each
\* runs from its first to its last statement before another starts
SeqSpec == Init /\ [][NextSeq]_vars

\* ------------------------------------------------------------------------
\* Properties
\* ------------------------------------------------------------------------
Status == last.resp.status
Body   == last.resp.body

\* the rows of the answered request's own user among the rows it met
OwnPre == {r \in last.pre : r.user_id = last.user}

\* the rows of other users among the rows it met
ForeignPre == {r \in last.pre : r.user_id # last.user}

\* positions of histB that hold a brand of user u named n
HistKey(u, n) ==
    {k \in 1..Len(histB) : histB[k].user_id = u /\ histB[k].brand_name = n}

\* no brand has been removed so far
NoBrandRemoved == Cardinality(brands) = Len(histB)

\* C1: in a store where the owner has no brand of that name a create_brand
\* succeeds (201, the row is inserted), and a create_brand for an (owner, name)
\* that is already stored fails with 400 and inserts nothing, whatever is_mine
\* either call carries.  Brand names are non-empty text; calls that do not
\* overlap (SeqSpec).
C1_FirstCreateSucceedsSecondIsDuplicate ==
    (last.op = "add_brand" /\ last.brand_name # "") =>
        IF OwnPre = {}
        THEN /\ Status = HTTP_201_CREATED
             /\ \E r \in last.ins : r.user_id = last.user /\ r.brand_name = last.brand_name
        ELSE /\ Status = HTTP_400_BAD_REQUEST
             /\ last.resp.detail = <<"Brand '", last.brand_name, "' already exists">>
             /\ last.ins = {}

\* a second create_brand for a stored (owner, name) with the other is_mine
\* value has been answered
C1_Witness ==
    /\ last.op = "add_brand"
    /\ Status = HTTP_400_BAD_REQUEST
    /\ \E r \in OwnPre : (r.is_mine # 0) # last.is_mine

\* C2: with creates running concurrently and no brand removed, every
\* (owner, name) is inserted at most once, the call that inserted it answers 201,
\* every other call for it answers 400 and inserts nothing, and a list_brands of
\* the owner shows exactly one record under a name that is stored.  Brand
\* names are non-empty text.
C2_ConcurrentCreatesOneWinner ==
    NoBrandRemoved =>
        /\ \A u \in Users, n \in Names : Cardinality(HistKey(u, n)) <= 1
        /\ (last.op = "add_brand" /\ last.brand_name # "") =>
              \/ /\ Status = HTTP_201_CREATED
                 /\ last.ins # {} /\ last.ins \subseteq brands
              \/ /\ Status = HTTP_400_BAD_REQUEST
                 /\ last.ins = {}
                 /\ Cardinality(HistKey(last.user, last.brand_name)) = 1
        /\ last.op = "list_brands" =>
              \A n \in Names :
                 Cardinality({i \in DOMAIN Body : Body[i].brand_name = n})
                   = (IF \E r \in OwnPre : r.brand_name = n THEN 1 ELSE 0)

\* a create_brand was answered DuplicateName while the create_brand that won
\* the same (owner, name) is still between its insert and its re-read
C2_Witness ==
    /\ NoBrandRemoved
    /\ last.op = "add_brand" /\ Status = HTTP_400_BAD_REQUEST
    /\ \E q \in Procs : /\ req[q].pc = "fetch" /\ req[q].op = "add_brand"
                        /\ req[q].user = last.user
                        /\ req[q].brand_name = last.brand_name

\* C3: a 201 of add_brand / add_intent carries exactly the record this call
\* inserted: the id its insert was given, the field values of the request and
\* the created_at of the inserted row, under every interleaving.
C3_ReturnedRecordIsTheInsertedOne ==
    /\ (last.op = "add_brand" /\ Status = HTTP_201_CREATED) =>
          \E r \in last.ins :
             /\ r.id = last.new_id
             /\ Body = <<[id |-> last.new_id, brand_name |-> last.brand_name,
                          is_mine |-> last.is_mine, created_at |-> r.created_at]>>
    /\ (last.op = "add_intent" /\ Status = HTTP_201_CREATED) =>
          \E r \in last.ins :
             /\ r.id = last.new_id
             /\ Body = <<[id |-> last.new_id, intent_alias |-> last.intent_alias,
                          prompt |-> last.prompt, created_at |-> r.created_at]>>

\* a create_brand answered 201 for a user who already had a brand, while
\* another create_brand was between its insert and its re-read
C3_Witness ==
    /\ last.op = "add_brand" /\ Status = HTTP_201_CREATED
    /\ \E r \in brands : r.user_id = last.user /\ r.id < last.new_id
    /\ \E q \in Procs : req[q].pc = "fetch" /\ req[q].op = "add_brand"

C5_ForeignDeleteRemovesNothing ==
    last.op = "remove_brand" =>
        /\ \A r \in last.rem : r.user_id = last.user /\ r.id = last.target_id
        /\ ForeignPre # {} =>
              /\ Status = HTTP_404_NOT_FOUND
              /\ last.rem = {}

\* a remove_brand aimed at another user's brand was answered and the brand is
\* still stored
C5_Witness ==
    /\ last.op = "remove_brand"
    /\ Status = HTTP_404_NOT_FOUND
    /\ \E r \in ForeignPre : r \in brands

\* C6: what list_brands / list_intents answers for a user is, id for id, the
\* rows of that user that were stored when the list was read: no row of
\* another user, and every row of the user, each once.
C6_ListIsScopedToOwner ==
    last.op \in {"list_brands", "list_intents"} =>
        /\ \A i \in DOMAIN Body : \E r \in OwnPre : r.id = Body[i].id
        /\ \A r \in OwnPre : \E i \in DOMAIN Body : Body[i].id = r.id
        /\ Len(Body) = Cardinality(OwnPre)

\* a list_brands was answered with a record while another user had a brand
C6_Witness ==
    /\ last.op = "list_brands"
    /\ Body # <<>>
    /\ ForeignPre # {}

\* C7: a create_brand succeeds for a user who has no brand of that name while
\* another user has one of the same name, and that user's brand stays as it is.
\* Calls that do not overlap (SeqSpec).
C7_SameNameDifferentOwners ==
    (last.op = "add_brand" /\ ForeignPre # {} /\ OwnPre = {}) =>
        /\ Status = HTTP_201_CREATED
        /\ \E r \in last.ins : r.brand_name = last.brand_name /\ r.user_id = last.user
        /\ (\A p \in Procs : req[p].pc = "idle") => ForeignPre \cup last.ins \subseteq brands

\* both users hold a brand of the same name, the second just created
C7_Witness ==
    /\ last.op = "add_brand" /\ Status = HTTP_201_CREATED
    /\ \E r \in brands : r.user_id # last.user /\ r.brand_name = last.brand_name
    /\ \E r \in brands : r.user_id = last.user /\ r.brand_name = last.brand_name

\* C8: a remove_brand of a live brand of its own user answers "deleted" and the
\* brand is gone; an id is given to one row only and a removed row never comes
\* back, so every later remove_brand of that id answers 404.
C8_DeleteTrueExactlyOnce ==
    /\ \A k \in 1..Len(histB) : histB[k].id = k
    /\ \A r \in brands : r.id \in 1..Len(histB) /\ histB[r.id] = r
    /\ last.op = "remove_brand" =>
          /\ \A r \in brands, x \in last.rem : r.id # x.id
          /\ IF OwnPre # {}
             THEN last.resp = Response(HTTP_200_OK, <<"Brand deleted">>, <<>>)
                  /\ last.rem = OwnPre
             ELSE Status = HTTP_404_NOT_FOUND /\ last.rem = {}

\* a second remove_brand of an id its user had already removed was answered 404
C8_Witness ==
    /\ last.op = "remove_brand"
    /\ Status = HTTP_404_NOT_FOUND
    /\ last.pre = {}
    /\ last.target_id \in 1..Len(histB)
    /\ histB[last.target_id].user_id = last.user

\* the brands of user u among the first n rows ever inserted, in that order
CreatedBy(u, n) ==
    SelectSeq(SubSeq(histB, 1, n), LAMBDA r : r.user_id = u)

\* C9: when no brand had been removed at the time of the read, list_brands
\* answers one record per create of the user that had inserted its row, in the
\* order of the inserts, with pairwise different ids and a created_at on each.
C9_ListAfterCreates ==
    LET n == Cardinality(last.pre)
        made == CreatedBy(last.user, n)
    IN  (/\ last.op = "list_brands"
         /\ n <= Len(histB)
         /\ last.pre = {histB[k] : k \in 1..n}) =>
            /\ Len(Body) = Len(made)
            /\ \A i \in DOMAIN Body :
                  /\ Body[i].id = made[i].id
                  /\ Body[i].brand_name = made[i].brand_name
                  /\ Body[i].is_mine = (made[i].is_mine = 1)
                  /\ Body[i].created_at = made[i].created_at
                  /\ Body[i].created_at >= 1
            /\ \A i, j \in DOMAIN Body : i # j => Body[i].id # Body[j].id

\* a list_brands answered two records of one user, none removed before
C9_Witness ==
    /\ last.op = "list_brands"
    /\ Len(Body) = 2
    /\ last.pre = {histB[k] : k \in 1..Len(histB)}

\* C10: a remove_brand / remove_intent that removes no row of its user gets one
\* and the same answer, whether the id is stored for another user or for
\* nobody.
C10_DeleteHidesForeignRecords ==
    /\ (last.op = "remove_brand" /\ OwnPre = {}) =>
          last.resp = Response(HTTP_404_NOT_FOUND, <<"Brand not found">>, <<>>)
    /\ (last.op = "remove_intent" /\ OwnPre = {}) =>
          last.resp = Response(HTTP_404_NOT_FOUND, <<"Intent not found">>, <<>>)

\* a remove_intent aimed at another user's intent was answered
C10_Witness ==
    /\ last.op = "remove_intent"
    /\ ForeignPre # {}
    /\ ForeignPre \subseteq intents

\* C11: an add_brand whose brand_name is empty is answered as invalid input
\* (400) and inserts no row.
C11_EmptyBrandNameIsInvalidInput ==
    (last.op = "add_brand" /\ InvalidBrand(last.brand_name)) =>
        /\ Status = HTTP_400_BAD_REQUEST
        /\ last.ins = {}

\* C12: an add_intent whose intent_alias or prompt is empty is answered as
\* invalid input (400) and inserts no row.
C12_EmptyIntentFieldIsInvalidInput ==
    (last.op = "add_intent" /\ InvalidIntent(last.intent_alias, last.prompt)) =>
        /\ Status = HTTP_400_BAD_REQUEST
        /\ last.ins = {}

\* the intents of user u among the rows ever inserted
EverCreatedBy(u) == {histI[k] : k \in {j \in 1..Len(histI) : histI[j].user_id = u}}

\* C13: an add_intent for an alias its user already holds answers 400 "already
\* exists", inserts nothing and leaves the stored row, prompt included, as it
\* was created; a remove_intent of a live intent of its user answers "deleted"
\* and the intent is gone; list_intents shows no intent that was removed, and
\* is empty when every intent its user created has been removed.  Aliases and
\* prompts are non-empty text.
C13_IntentLifecycle ==
    /\ (/\ last.op = "add_intent" /\ OwnPre # {}
        /\ ~InvalidIntent(last.intent_alias, last.prompt)) =>
          /\ last.resp = Response(HTTP_400_BAD_REQUEST,
                 <<"Intent alias '", last.intent_alias, "' already exists">>, <<>>)
          /\ last.ins = {}
          /\ \A r \in intents, x \in OwnPre : r.id = x.id => r = x /\ histI[r.id] = r
    /\ (last.op = "remove_intent" /\ OwnPre # {}) =>
          /\ last.resp = Response(HTTP_200_OK, <<"Intent deleted">>, <<>>)
          /\ last.rem = OwnPre
          /\ \A r \in intents, x \in last.rem : r.id # x.id
    /\ last.op = "list_intents" =>
          /\ \A i \in DOMAIN Body : removals["intent"][Body[i].id] = 0
          /\ (\A x \in EverCreatedBy(last.user) : removals["intent"][x.id] > 0)
                => Body = <<>>

\* an add_intent for a stored (owner, alias) with another prompt was answered
\* DuplicateName and the stored intent still carries its first prompt
C13_Witness ==
    /\ last.op = "add_intent" /\ Status = HTTP_400_BAD_REQUEST
    /\ \E r \in OwnPre : r.prompt # last.prompt /\ r \in intents /\ histI[r.id] = r

C15_InitializerRunsFirst ==
    /\ \A p \in Procs : req[p].pc \in {"exec", "fetch"} => schema
    /\ last.op # "idle" => schema
    /\ (brands # {} \/ intents # {} \/ histB # <<>> \/ histI # <<>>) => schema

\* one handler has answered from the store and another is between its insert
\* and its re-read
C15_Witness ==
    /\ schema
    /\ last.op \in {"list_brands", "list_intents", "remove_brand", "remove_intent"}
    /\ \E p \in Procs : req[p].pc = "fetch"

\* C16: no two stored brands share (user_id, brand_name), no two stored intents
\* share (user_id, intent_alias), and no two rows of one table share an id.
C16_LiveRecordsAreUnique ==
    /\ \A r, q \in brands :
          (r.id = q.id \/ (r.user_id = q.user_id /\ r.brand_name = q.brand_name))
             => r = q
    /\ \A r, q \in intents :
          (r.id = q.id \/ (r.user_id = q.user_id /\ r.intent_alias = q.intent_alias))
             => r = q

\* a name is stored again for its user, under a new id, after the user's first
\* brand of that name was removed
C16_Witness ==
    \E r \in brands :
       /\ r.id = 2 /\ removals["brand"][1] = 1
       /\ histB[1].user_id = r.user_id /\ histB[1].brand_name = r.brand_name

\* C17: every stored brand and intent is, field for field, the row that was
\* inserted under its id: user_id, name or alias, is_mine or prompt and
\* created_at never change while the row is stored.
C17_RecordsAreImmutable ==
    /\ \A r \in brands  : r.id \in 1..Len(histB) /\ histB[r.id] = r
    /\ \A r \in intents : r.id \in 1..Len(histI) /\ histI[r.id] = r

\* a duplicate add_brand carrying the other is_mine value was rejected and the
\* stored brand still is the row that was inserted
C17_Witness ==
    /\ last.op = "add_brand" /\ Status = HTTP_400_BAD_REQUEST
    /\ \E r \in OwnPre : /\ r.is_mine # BoolToInt(last.is_mine)
                         /\ r \in brands /\ histB[r.id] = r

\* C18: an add_brand / add_intent whose insert went through is never answered
\* 500 "Failed to retrieve created ...".
C18_ReReadFindsInsertedRecord ==
    \A what \in {"brand", "intent"} :
       (last.op = "add_" \o what /\ last.ins # {}) =>
           last.resp.detail # <<"Failed to retrieve created " \o what>>

\* C19: every row is removed at most once over all remove calls, and a
\* remove_brand / remove_intent answers "deleted" exactly when it is the call
\* that removed the row: of the callers that delete one live id, one gets
\* "deleted" and every other gets 404.
C19_ConcurrentDeletesOneWinner ==
    /\ \A t \in DOMAIN removals : \A i \in DOMAIN removals[t] : removals[t][i] <= 1
    /\ last.op \in {"remove_brand", "remove_intent"} =>
          /\ Status = HTTP_200_OK <=> last.rem # {}
          /\ Status \in {HTTP_200_OK, HTTP_404_NOT_FOUND}
          /\ Cardinality(last.rem) <= 1
          /\ \A x \in last.rem :
                removals[IF last.op = "remove_brand" THEN "brand" ELSE "intent"][x.id] = 1

\* a remove_intent of an intent its user had created was answered 404 because
\* another remove_intent had removed it
C19_Witness ==
    /\ last.op = "remove_intent" /\ Status = HTTP_404_NOT_FOUND
    /\ last.pre = {}
    /\ last.target_id \in 1..Len(histI)
    /\ histI[last.target_id].user_id = last.user
    /\ removals["intent"][last.target_id] = 1

\* the request whose repository call the step makes is a request of user u
ActsFor(u) ==
    \/ last' # last /\ last'.user = u
    \/ \E p \in Procs : req[p].pc = "exec" /\ req'[p].pc = "fetch" /\ req'[p].user = u

\* C20: a step that changes the brands or the intents of a user, or what
\* list_brands / list_intents would answer that user, is a step of a request
\* of that same user.  (Only a step that changes a table can change either.)
C20_OtherOwnersUntouched ==
    [][(brands' # brands \/ intents' # intents) =>
          \A u \in Users :
             (\/ {r \in brands' : r.user_id = u} # {r \in brands : r.user_id = u}
              \/ {r \in intents' : r.user_id = u} # {r \in intents : r.user_id = u}
              \/ list_brands_result(list_brands_query(brands', u))
                   # list_brands_result(list_brands_query(brands, u))
              \/ list_intents_result(list_intents_query(intents', u))
                   # list_intents_result(list_intents_query(intents, u)))
             => ActsFor(u)]_vars

\* a user's remove_brand removed a brand while another user's brand stays
\* stored
C20_Witness ==
    /\ last.op = "remove_brand" /\ Status = HTTP_200_OK
    /\ \E r \in brands : r.user_id # last.user
    /\ \A x \in last.rem : x \notin brands

====
